---------------------------- MODULE Spec2Model ----------------------------
(***************************************************************************)
(* A model of simplecrypt.py (a Python port of Qt's SimpleCrypt): the key  *)
(* schedule, the chained-XOR cipher, the integrity trailer, the            *)
(* compression gate and the versioned wire format, together with the       *)
(* instance state (key, key parts, modes, last_error) that the calls read  *)
(* and write.                                                              *)
(*                                                                         *)
(* Byte strings (QByteArray / bytes) are sequences of integers 0..255.     *)
(* The 64-bit key is a sequence of 16-bit limbs, most significant limb     *)
(* first, because TLC's integers are 32 bits wide.                         *)
(*                                                                         *)
(* Library routines the program imports are modelled as follows:           *)
(*   qChecksum   the CRC-16 of Qt 5 (nibble table, initial value 0xffff,   *)
(*               result complemented), bit for bit;                        *)
(*   qCompress   the 4-byte big-endian length prefix of Qt followed by a   *)
(*               run-length stand-in for the zlib stream: like zlib it     *)
(*               shrinks repetitive input and grows short input;           *)
(*   SHA-1       a 20-byte stand-in digest (only its length and its        *)
(*               dependence on the data are used by the program);          *)
(*   qrand       a nondeterministic choice of the padding byte.            *)
(* A Python exception leaving a call is recorded in the variable raised.   *)
(***************************************************************************)
EXTENDS Integers, Sequences, FiniteSets, TLC

(***************************************************************************)
(* Bounds of the model.                                                    *)
(***************************************************************************)
\* longest plaintext drawn from all sequences over Alphabet
MaxLen == 2
\* longest plaintext that is a run of one repeated byte
MaxRun == 7
\* longest ciphertext part of a hand-made (raw) blob
MaxRaw == 2

(***************************************************************************)
(* Program constants.                                                      *)
(***************************************************************************)
CompressionAuto == "CompressionAuto"
CompressionAlways == "CompressionAlways"
CompressionNever == "CompressionNever"
CompressionModes == {CompressionAuto, CompressionAlways, CompressionNever}

ProtectionNone == "ProtectionNone"
ProtectionChecksum == "ProtectionChecksum"
ProtectionHash == "ProtectionHash"
ProtectionModes == {ProtectionNone, ProtectionChecksum, ProtectionHash}

ErrorNoError == 0
ErrorNoKeySet == 1
ErrorUnknownVersion == 2
ErrorIntegrityFailed == 3

CryptoFlagNone == 0
CryptoFlagCompression == 1
CryptoFlagChecksum == 2
CryptoFlagHash == 4

\* the version byte written by encrypt_to_bytes and required by decrypt_to_bytes
Version == 3
\* length of a SHA-1 digest
HashLen == 20

(***************************************************************************)
(* Bit operations on bytes and 16-bit words.                               *)
(***************************************************************************)
BitXor(a, b, w) == IF ((a \div w) % 2) # ((b \div w) % 2) THEN w ELSE 0

XorNib == [a \in 0..15 |-> [b \in 0..15 |->
             BitXor(a, b, 1) + BitXor(a, b, 2) + BitXor(a, b, 4) + BitXor(a, b, 8)]]

\* a ^ b on bytes
Xor8(a, b) == 16 * XorNib[a \div 16][b \div 16] + XorNib[a % 16][b % 16]

\* a ^ b on 16-bit words
Xor16(a, b) == 256 * Xor8(a \div 256, b \div 256) + Xor8(a % 256, b % 256)

\* flags & bit # 0, for a single-bit mask
HasFlag(flags, bit) == (flags \div bit) % 2 = 1

\* flags | bit, for a single-bit mask
OrFlag(flags, bit) == IF HasFlag(flags, bit) THEN flags ELSE flags + bit

(***************************************************************************)
(* QByteArray helpers.                                                     *)
(***************************************************************************)
Mid(ba, n) == SubSeq(ba, n + 1, Len(ba))

\* QDataStream.writeUInt16: big-endian
WriteUInt16(v) == <<v \div 256, v % 256>>

\* QDataStream.readUInt16: big-endian
ReadUInt16(ba) == ba[1] * 256 + ba[2]

(***************************************************************************)
(* The key: limbs of 16 bits, most significant first.                      *)
(***************************************************************************)
\* Python truthiness of the integer key: `if key:`
KeyIsNonZero(k) == \E i \in 1..Len(k) : k[i] # 0

\* key & 0xffffffffffffffff : the four least significant limbs
Mask64(k) ==
    IF Len(k) >= 4 THEN SubSeq(k, Len(k) - 3, Len(k))
    ELSE [i \in 1..(4 - Len(k)) |-> 0] \o k

\* part >>= 8 on a 64-bit value
Shr8(p) == [i \in 1..4 |-> (IF i = 1 THEN 0 ELSE (p[i - 1] % 256) * 256) + (p[i] \div 256)]

RECURSIVE ShrTimes(_, _)
\* for y in range(x, 0, -1): part >>= 8
ShrTimes(p, y) == IF y <= 0 THEN p ELSE ShrTimes(Shr8(p), y - 1)

\* part &= 0xff
AndFF(p) == p[4] % 256

\* the wrong byte order: most significant byte first
SplitKeyBigEndian(k) == [i \in 1..8 |-> AndFF(ShrTimes(Mask64(k), 8 - i))]

\* split_key: key part x (0-based) is (key >> 8x) & 0xff
SplitKey(k) == [i \in 1..8 |-> AndFF(ShrTimes(Mask64(k), i - 1))]

(***************************************************************************)
(* qChecksum: Qt 5's CRC-16.                                               *)
(***************************************************************************)
CrcTbl(n) == n * 4225

\* crc = ((crc >> 4) & 0x0fff) ^ crc_tbl[(crc ^ c) & 15]
CrcNibble(crc, c) == Xor16(crc \div 16, CrcTbl(XorNib[crc % 16][c % 16]))

\* one byte: c = *p++; the low nibble, c >>= 4, the high nibble
CrcByte(crc, c) == CrcNibble(CrcNibble(crc, c), c \div 16)

RECURSIVE CrcLoop(_, _)
\* while (len--): st holds the loop's variables crc and pos
CrcLoop(st, ba) ==
    IF st.pos > Len(ba) THEN st.crc
    ELSE CrcLoop([crc |-> CrcByte(st.crc, ba[st.pos]), pos |-> st.pos + 1], ba)

\* crc starts at 0xffff; the result is ~crc & 0xffff
QChecksum(ba) == 65535 - CrcLoop([crc |-> 65535, pos |-> 1], ba)

(***************************************************************************)
(* SHA-1 (stand-in): 20 bytes that depend on every byte of the data.       *)
(***************************************************************************)
RECURSIVE DigestByte(_, _)
DigestByte(st, ba) ==
    IF st.pos > Len(ba) THEN st.acc
    ELSE DigestByte([acc |-> (st.acc * 31 + ba[st.pos] + st.pos) % 256, pos |-> st.pos + 1], ba)

Sha1(ba) == [i \in 1..HashLen |-> DigestByte([acc |-> (i * 37 + Len(ba)) % 256, pos |-> 1], ba)]

(***************************************************************************)
(* qCompress: 4-byte big-endian length, then the compressed stream         *)
(* (stand-in: run lengths).  An empty input gives four zero bytes.         *)
(***************************************************************************)
BE32(n) == <<(n \div 16777216) % 256, (n \div 65536) % 256, (n \div 256) % 256, n % 256>>

RECURSIVE Deflate(_, _, _, _)
Deflate(ba, pos, byte, count) ==
    IF pos > Len(ba) THEN <<count, byte>>
    ELSE IF ba[pos] = byte /\ count < 255 THEN Deflate(ba, pos + 1, byte, count + 1)
    ELSE <<count, byte>> \o Deflate(ba, pos + 1, ba[pos], 1)

QCompress(ba) ==
    IF Len(ba) = 0 THEN <<0, 0, 0, 0>>
    ELSE BE32(Len(ba)) \o Deflate(ba, 2, ba[1], 1)

(***************************************************************************)
(* The chained XOR.                                                        *)
(***************************************************************************)
RECURSIVE EncryptLoop(_, _, _, _)
\* encrypt_to_bytes, the while loop: chains on the byte just written
EncryptLoop(kp, ba, pos, last) ==
    IF pos >= Len(ba) THEN ba
    ELSE LET curr == ba[pos + 1]
             new  == Xor8(Xor8(curr, kp[(pos % 8) + 1]), last)
         IN  EncryptLoop(kp, [ba EXCEPT ![pos + 1] = new], pos + 1, new)

RECURSIVE DecryptLoop(_, _, _, _)
\* decrypt_to_bytes, the while loop: chains on the byte just read
DecryptLoop(kp, ba, pos, last) ==
    IF pos >= Len(ba) THEN ba
    ELSE LET curr == ba[pos + 1]
             new  == Xor8(Xor8(curr, last), kp[(pos % 8) + 1])
         IN  DecryptLoop(kp, [ba EXCEPT ![pos + 1] = new], pos + 1, curr)


(***************************************************************************)
(* encrypt_to_bytes, stage by stage.                                       *)
(***************************************************************************)
\* no exception left the call
NoException == "none"
\* a NameError left the call (a name the module never binds)
NameError == "NameError"

\* the compression branches: the bytes to carry and the flags so far.  In
\* the Auto branch the statement `flags != CryptoFlagCompression` is a
\* comparison whose value is dropped, so flags stays as it was.
CompressionGate(mode, text) ==
    IF mode = CompressionAlways
    THEN [ba |-> QCompress(text), flags |-> OrFlag(CryptoFlagNone, CryptoFlagCompression)]
    ELSE IF mode = CompressionAuto /\ Len(QCompress(text)) < Len(text)
    THEN [ba |-> QCompress(text), flags |-> CryptoFlagNone]
    ELSE [ba |-> text, flags |-> CryptoFlagNone]

\* a trailer that drops the low byte of the checksum
IntegrityProtectionShort(mode, ba) ==
    IF mode = ProtectionChecksum THEN <<QChecksum(ba) \div 256>>
    ELSE IF mode = ProtectionHash THEN Sha1(ba)
    ELSE <<>>

\* the integrity trailer: 2 bytes of checksum, 20 bytes of hash, or nothing
IntegrityProtection(mode, ba) ==
    IF mode = ProtectionChecksum THEN WriteUInt16(QChecksum(ba))
    ELSE IF mode = ProtectionHash THEN Sha1(ba)
    ELSE <<>>

\* the flags after the protection branches
ProtectionFlags(mode, flags) ==
    IF mode = ProtectionChecksum THEN OrFlag(flags, CryptoFlagChecksum)
    ELSE IF mode = ProtectionHash THEN OrFlag(flags, CryptoFlagHash)
    ELSE flags

\* the record a call leaves: the bytes returned, last_error after the call,
\* and the exception that left it, if any
Outcome(ret, err, exc) == [ret |-> ret, err |-> err, raised |-> exc]

EncryptToBytes(kp, cmode, pmode, text, rnd) ==
    IF Len(kp) = 0 THEN Outcome(<<>>, ErrorNoKeySet, NoException)
    ELSE LET gate  == CompressionGate(cmode, text)
             prot  == IntegrityProtection(pmode, gate.ba)
             flags == ProtectionFlags(pmode, gate.flags)
             ba    == EncryptLoop(kp, <<rnd>> \o prot \o gate.ba, 0, 0)
         IN  Outcome(<<Version, flags>> \o ba, ErrorNoError, NoException)

(***************************************************************************)
(* decrypt_to_bytes, stage by stage.  le is last_error before the call.    *)
(***************************************************************************)
\* a version test that also lets later versions through
VersionSupportedOrLater(version) == version >= Version

\* `if version != 3` fails the call
VersionSupported(version) == version = Version

\* from `if not integrity_ok` on.  qUncompress is not among the names the
\* module imports, so the line that calls it raises NameError.
Finish(le, flags, ba, integrity_ok) ==
    IF ~integrity_ok THEN Outcome(<<>>, ErrorIntegrityFailed, NoException)
    ELSE IF HasFlag(flags, CryptoFlagCompression) THEN Outcome(<<>>, le, NameError)
    ELSE Outcome(ba, ErrorNoError, NoException)

\* the integrity branches.  In the hash branch a short buffer assigns to
\* self.lastError (another attribute: last_error keeps its value), and a
\* long enough one evaluates `be.left(20)`, where be is bound nowhere.
Verify(le, flags, ba) ==
    IF HasFlag(flags, CryptoFlagChecksum)
    THEN IF Len(ba) < 2 THEN Outcome(<<>>, ErrorIntegrityFailed, NoException)
         ELSE Finish(le, flags, Mid(ba, 2), QChecksum(Mid(ba, 2)) = ReadUInt16(ba))
    ELSE IF HasFlag(flags, CryptoFlagHash)
    THEN IF Len(ba) < HashLen THEN Outcome(<<>>, le, NoException)
         ELSE Outcome(<<>>, le, NameError)
    ELSE Finish(le, flags, ba, TRUE)

DecryptToBytes(kp, le, cypher) ==
    IF Len(kp) = 0 THEN Outcome(<<>>, ErrorNoKeySet, NoException)
    ELSE IF Len(cypher) < 3 THEN Outcome(<<>>, le, NoException)
    ELSE IF ~VersionSupported(cypher[1]) THEN Outcome(<<>>, ErrorUnknownVersion, NoException)
    ELSE Verify(le, cypher[2], Mid(DecryptLoop(kp, Mid(cypher, 2), 0, 0), 1))

(***************************************************************************)
(* Inputs.                                                                 *)
(***************************************************************************)
Alphabet == {97, 98}

SeqsUpTo(S, n) == UNION {[1..m -> S] : m \in 0..n}

\* plaintexts: every short sequence, and runs of one byte (which compress)
Plaintexts == SeqsUpTo(Alphabet, MaxLen) \cup {[i \in 1..n |-> 97] : n \in 1..MaxRun}

\* values of qrand() & 0xff
RandomBytes == {0, 167}

\* keys: zero, the key of the self-test, and one wider than 64 bits
Keys == {<<0>>, <<291, 17767, 35243, 52719>>, <<1, 65244, 47768, 30292, 12816>>}

\* hand-made blobs: too short ones, and version, flags and a few bytes
RawBlobs == {<<>>, <<Version>>, <<2>>, <<Version, 0>>, <<2, 0>>} \cup
            {<<v, f>> \o [i \in 1..n |-> 255] :
                 v \in {2, Version, 4}, f \in {0, 1, 2, 4, 13}, n \in 1..MaxRaw}

(***************************************************************************)
(* State: the instance, and a record of the call made last.                *)
(***************************************************************************)
VARIABLES
    key,               \* self._key
    key_parts,         \* self._key_parts
    compression_mode,  \* self._compression_mode
    protection_mode,   \* self._protection_mode
    last_error,        \* self.last_error
    op,                \* the call made last
    arg,               \* its argument
    ret,               \* the bytes it returned
    raised,            \* the exception that left it
    origin,            \* where the argument of a decrypt came from
    pc,                \* concurrent callers: where each caller is
    calls,             \* concurrent callers: the call each caller makes
    frames,            \* concurrent callers: the local variables of each call
    seen               \* concurrent callers: last_error as read after the call

vars == <<key, key_parts, compression_mode, protection_mode, last_error,
          op, arg, ret, raised, origin, pc, calls, frames, seen>>

\* the state of the concurrent callers
callers == <<pc, calls, frames, seen>>

\* the record of the call made last
observed == <<op, arg, ret, raised, origin>>

instance == <<key, key_parts, compression_mode, protection_mode, last_error>>

\* callers that share the instance
Callers == {1, 2}

\* marks an outcome whose path assigns nothing to self.last_error
NoWrite == 0 - 1

NoCall == [kind |-> "none", data |-> <<>>, rnd |-> 0]

IdleFrame == [ba |-> <<>>, flags |-> CryptoFlagNone,
              out |-> Outcome(<<>>, NoWrite, NoException)]

NoOrigin == [kind |-> "none", text |-> <<>>, rnd |-> 0, byte |-> 0, bit |-> 0]

\* __init__(key); the two modes are plain attributes a caller may assign
\* before use
Init ==
    /\ key \in Keys
    /\ key_parts = IF KeyIsNonZero(key) THEN SplitKey(key) ELSE <<>>
    /\ compression_mode \in CompressionModes
    /\ protection_mode \in ProtectionModes
    /\ last_error = ErrorNoError
    /\ op = "init"
    /\ arg = <<>>
    /\ ret = <<>>
    /\ raised = NoException
    /\ origin = NoOrigin
    /\ pc = [c \in Callers |-> "idle"]
    /\ calls = [c \in Callers |-> NoCall]
    /\ frames = [c \in Callers |-> IdleFrame]
    /\ seen = [c \in Callers |-> NoWrite]

\* set_key(k)
SetKey(k) ==
    /\ key' = k
    /\ key_parts' = SplitKey(k)
    /\ op' = "set_key"
    /\ arg' = <<>>
    /\ ret' = <<>>
    /\ raised' = NoException
    /\ origin' = NoOrigin
    /\ UNCHANGED <<compression_mode, protection_mode, last_error, callers>>

\* encrypt_to_bytes(text), with rnd the value of qrand() & 0xff
Encrypt(text, rnd) ==
    \E r \in {EncryptToBytes(key_parts, compression_mode, protection_mode, text, rnd)} :
        /\ last_error' = r.err
        /\ op' = "encrypt"
        /\ arg' = text
        /\ ret' = r.ret
        /\ raised' = r.raised
        /\ origin' = [NoOrigin EXCEPT !.kind = "text", !.text = text, !.rnd = rnd]
        /\ UNCHANGED <<key, key_parts, compression_mode, protection_mode, callers>>

\* decrypt_to_bytes(cypher)
Decrypt(cypher, from) ==
    \E r \in {DecryptToBytes(key_parts, last_error, cypher)} :
        /\ last_error' = r.err
        /\ op' = "decrypt"
        /\ arg' = cypher
        /\ ret' = r.ret
        /\ raised' = r.raised
        /\ origin' = from
        /\ UNCHANGED <<key, key_parts, compression_mode, protection_mode, callers>>

\* the blob with one bit of one byte flipped (i is 0-based)
FlipBit(blob, i, w) == [blob EXCEPT ![i + 1] = Xor8(blob[i + 1], w)]

BitMasks == {1, 2, 4, 8, 16, 32, 64, 128}

\* decrypt what the last encrypt returned
DecryptEcho ==
    /\ op = "encrypt"
    /\ Decrypt(ret, [origin EXCEPT !.kind = "echo"])

\* decrypt a hand-made blob
DecryptRaw == \E c \in RawBlobs : Decrypt(c, [NoOrigin EXCEPT !.kind = "raw"])

\* decrypt what the last encrypt returned, with one bit flipped
DecryptFlipped ==
    /\ op = "encrypt"
    /\ \E i \in 0..(Len(ret) - 1), w \in BitMasks :
          Decrypt(FlipBit(ret, i, w), [origin EXCEPT !.kind = "flip", !.byte = i, !.bit = w])

EncryptAny == \E text \in Plaintexts, rnd \in RandomBytes : Encrypt(text, rnd)

SetKeyAny == \E k \in Keys : SetKey(k)

Next == SetKeyAny \/ EncryptAny \/ DecryptEcho \/ DecryptRaw

Spec == Init /\ [][Next]_vars

\* one encrypt on a fresh instance, then one decrypt of the tampered blob
FirstEncrypt == op = "init" /\ EncryptAny

TamperNext == FirstEncrypt \/ DecryptFlipped

TamperSpec == Init /\ [][TamperNext]_vars


(***************************************************************************)
(* Several callers on one instance whose key is not changed.  A call's     *)
(* names ba, flags and the value it returns are locals of that call: they  *)
(* live in the call's frame.  self._key_parts and the two modes are read   *)
(* from the instance as the call goes; self.last_error is written to the   *)
(* instance just before the call returns, and read by the caller after.    *)
(***************************************************************************)
\* the calls the callers make
ConcCalls ==
    {[kind |-> "encrypt", data |-> t, rnd |-> 167] : t \in {<<97>>, <<98, 98>>}} \cup
    {[kind |-> "decrypt", data |-> b, rnd |-> 0] : b \in {<<2, 0, 255>>, <<Version, 2, 255>>}}

\* all callers' locals in one place, as if they were attributes of self
FrameShared(c) == 1

\* the frame that holds the locals of caller c's call
FrameOf(c) == c

\* caller c is at `at` and its call is of kind `kind`
At(c, at, kind) == pc[c] = at /\ calls[c].kind = kind

\* caller c moves on to `to` with its frame set to f
Goto(c, to, f) ==
    /\ pc' = [pc EXCEPT ![c] = to]
    /\ frames' = [frames EXCEPT ![FrameOf(c)] = f]
    /\ UNCHANGED <<instance, observed, calls, seen>>

\* caller c enters encrypt_to_bytes or decrypt_to_bytes: without a key the
\* call sets last_error and returns at once; else ba = QByteArray(argument)
Begin(c, call) ==
    /\ pc[c] = "idle"
    /\ calls' = [calls EXCEPT ![c] = call]
    /\ IF Len(key_parts) = 0
       THEN /\ last_error' = ErrorNoKeySet
            /\ pc' = [pc EXCEPT ![c] = "returned"]
            /\ frames' = [frames EXCEPT ![FrameOf(c)] =
                             [IdleFrame EXCEPT !.out = Outcome(<<>>, ErrorNoKeySet, NoException)]]
       ELSE /\ pc' = [pc EXCEPT ![c] = IF call.kind = "encrypt" THEN "compress" ELSE "header"]
            /\ frames' = [frames EXCEPT ![FrameOf(c)] = [IdleFrame EXCEPT !.ba = call.data]]
            /\ UNCHANGED last_error
    /\ UNCHANGED <<key, key_parts, compression_mode, protection_mode, observed, seen>>

\* encrypt_to_bytes: the compression branches
StepCompress(c) ==
    /\ At(c, "compress", "encrypt")
    /\ \E gate \in {CompressionGate(compression_mode, frames[FrameOf(c)].ba)} :
          Goto(c, "protect", [frames[FrameOf(c)] EXCEPT !.ba = gate.ba, !.flags = gate.flags])

\* encrypt_to_bytes: the protection branches, and the padding byte
StepProtect(c) ==
    /\ At(c, "protect", "encrypt")
    /\ \E f \in {frames[FrameOf(c)]} :
          Goto(c, "cipher",
               [f EXCEPT !.flags = ProtectionFlags(protection_mode, f.flags),
                         !.ba = <<calls[c].rnd>> \o IntegrityProtection(protection_mode, f.ba) \o f.ba])

\* encrypt_to_bytes: the cipher loop, and the result with version and flags
StepCipher(c) ==
    /\ At(c, "cipher", "encrypt")
    /\ \E f \in {frames[FrameOf(c)]} :
          Goto(c, "ready",
               [f EXCEPT !.out = Outcome(<<Version, f.flags>> \o EncryptLoop(key_parts, f.ba, 0, 0),
                                         ErrorNoError, NoException)])

\* decrypt_to_bytes: the length and version tests, flags, ba.mid(2)
StepHeader(c) ==
    /\ At(c, "header", "decrypt")
    /\ \E f \in {frames[FrameOf(c)]} :
          IF Len(f.ba) < 3
          THEN Goto(c, "ready", [f EXCEPT !.out = Outcome(<<>>, NoWrite, NoException)])
          ELSE IF ~VersionSupported(f.ba[1])
          THEN Goto(c, "ready", [f EXCEPT !.out = Outcome(<<>>, ErrorUnknownVersion, NoException)])
          ELSE Goto(c, "decipher", [f EXCEPT !.flags = f.ba[2], !.ba = Mid(f.ba, 2)])

\* decrypt_to_bytes: the cipher loop, and ba.mid(1)
StepDecipher(c) ==
    /\ At(c, "decipher", "decrypt")
    /\ \E f \in {frames[FrameOf(c)]} :
          Goto(c, "verify", [f EXCEPT !.ba = Mid(DecryptLoop(key_parts, f.ba, 0, 0), 1)])

\* decrypt_to_bytes: the integrity branches and what follows them
StepVerify(c) ==
    /\ At(c, "verify", "decrypt")
    /\ \E f \in {frames[FrameOf(c)]} :
          Goto(c, "ready", [f EXCEPT !.out = Verify(NoWrite, f.flags, f.ba)])

\* self.last_error = ... (on the paths that assign it), then return
Return(c) ==
    /\ pc[c] = "ready"
    /\ last_error' = IF frames[FrameOf(c)].out.err = NoWrite THEN last_error
                     ELSE frames[FrameOf(c)].out.err
    /\ pc' = [pc EXCEPT ![c] = "returned"]
    /\ UNCHANGED <<key, key_parts, compression_mode, protection_mode, observed, frames, calls, seen>>

\* the caller reads crypto.last_error after its call
Observe(c) ==
    /\ pc[c] = "returned"
    /\ pc' = [pc EXCEPT ![c] = "observed"]
    /\ seen' = [seen EXCEPT ![c] = last_error]
    /\ UNCHANGED <<instance, observed, frames, calls>>

BeginAny == \E c \in Callers, call \in ConcCalls : Begin(c, call)

EncryptStep == \E c \in Callers : StepCompress(c) \/ StepProtect(c) \/ StepCipher(c)

DecryptStep == \E c \in Callers : StepHeader(c) \/ StepDecipher(c) \/ StepVerify(c)

ReturnAny == \E c \in Callers : Return(c)

ObserveAny == \E c \in Callers : Observe(c)

ConcNext == BeginAny \/ EncryptStep \/ DecryptStep \/ ReturnAny \/ ObserveAny

ConcSpec == Init /\ [][ConcNext]_vars

(***************************************************************************)
(* Properties.                                                             *)
(***************************************************************************)
\* the instance holds a key schedule
KeySet == Len(key_parts) # 0

\* the instance holds a key that is not zero as a 64-bit value
KeyNonZero == KeySet /\ KeyIsNonZero(Mask64(key))

\* length of the trailer a protection mode writes
TrailerLen(mode) ==
    IF mode = ProtectionChecksum THEN 2 ELSE IF mode = ProtectionHash THEN HashLen ELSE 0

\* C1: decrypting, under the same nonzero key, the blob that encrypt_to_bytes
\* just returned gives back exactly the plaintext, with last_error =
\* ErrorNoError and no exception, in every mode and for every padding byte.
C1_RoundTrip ==
    (op = "decrypt" /\ origin.kind = "echo" /\ KeyNonZero)
        => (raised = NoException /\ ret = origin.text /\ last_error = ErrorNoError)

\* C2: a blob encrypted with Checksum or Hash protection in which one bit
\* after the version, flags and random byte positions was flipped decrypts
\* to an empty result with last_error = ErrorIntegrityFailed.
C2_TamperDetected ==
    (op = "decrypt" /\ origin.kind = "flip" /\ KeyNonZero /\ origin.byte >= 3
        /\ protection_mode \in {ProtectionChecksum, ProtectionHash})
        => (raised = NoException /\ ret = <<>> /\ last_error = ErrorIntegrityFailed)

\* C3 as stated: with a key set, every blob whose first byte is not 3
\* decrypts to an empty result with last_error = ErrorUnknownVersion.
C3_VersionGuardAnyLength ==
    (op = "decrypt" /\ KeySet /\ Len(arg) >= 1 /\ arg[1] # Version)
        => (ret = <<>> /\ last_error = ErrorUnknownVersion)

\* C3 (amended): with a key set, every blob of at least 3 bytes whose first
\* byte is not 3 decrypts to an empty result with last_error =
\* ErrorUnknownVersion and no exception, whatever its flags and remaining
\* bytes are.
C3_VersionGuard ==
    (op = "decrypt" /\ KeySet /\ Len(arg) >= 3 /\ arg[1] # Version)
        => (raised = NoException /\ ret = <<>> /\ last_error = ErrorUnknownVersion)

C3_Witness ==
    /\ op = "decrypt" /\ KeySet /\ Len(arg) >= 3 /\ arg[1] > Version
    /\ HasFlag(arg[2], CryptoFlagHash) /\ HasFlag(arg[2], CryptoFlagCompression)
    /\ last_error = ErrorUnknownVersion

\* C4: whenever the current key is zero, the key schedule is empty and every
\* encrypt or decrypt call made returns empty with last_error = ErrorNoKeySet.
C4_NoKeyGuard ==
    ~KeyIsNonZero(key)
        => /\ key_parts = <<>>
           /\ op \in {"encrypt", "decrypt"} => (ret = <<>> /\ last_error = ErrorNoKeySet)

\* C5: with a key set, decrypt_to_bytes raises nothing on any blob, and a
\* call that reports an error returns the empty result.
C5_NoExceptionNoPartial ==
    (op = "decrypt" /\ KeySet)
        => (raised = NoException /\ (last_error # ErrorNoError => ret = <<>>))

\* the outcome C6 names for a decrypt of blob c that returned, as far as the
\* blob's length and header decide it; Undecided where they do not
Undecided == 0 - 1

HeaderOutcome(kp, c) ==
    IF Len(kp) = 0 THEN ErrorNoKeySet
    ELSE IF Len(c) < 3 THEN Undecided
    ELSE IF c[1] # Version THEN ErrorUnknownVersion
    ELSE IF HasFlag(c[2], CryptoFlagChecksum) /\ Len(c) - 3 < 2 THEN ErrorIntegrityFailed
    ELSE IF ~HasFlag(c[2], CryptoFlagChecksum) /\ HasFlag(c[2], CryptoFlagHash)
            /\ Len(c) - 3 < HashLen THEN ErrorIntegrityFailed
    ELSE Undecided

\* C6: after a call that returned, last_error is the outcome of that call:
\* ErrorNoKeySet without a key, ErrorUnknownVersion for a version other than
\* 3, ErrorIntegrityFailed when fewer than 2 (checksum) or 20 (hash) bytes
\* remain, ErrorNoError after a successful encrypt.
C6_LastErrorTracksLatestCall ==
    /\ (op = "encrypt" /\ raised = NoException)
          => last_error = (IF KeySet THEN ErrorNoError ELSE ErrorNoKeySet)
    /\ (op = "decrypt" /\ raised = NoException /\ HeaderOutcome(key_parts, arg) # Undecided)
          => last_error = HeaderOutcome(key_parts, arg)

\* the payload a returned blob carries, deciphered with the instance's key
CarriedPayload ==
    Mid(DecryptLoop(key_parts, Mid(ret, 2), 0, 0), 1 + TrailerLen(protection_mode))

\* C7: in CompressionAuto mode the blob's compression flag is set exactly
\* when the compressed form is strictly shorter than the text, and the flag
\* agrees with whether the payload carried is the compressed form.
C7_AutoCompressionFlag ==
    (op = "encrypt" /\ KeySet /\ compression_mode = CompressionAuto)
        => /\ HasFlag(ret[2], CryptoFlagCompression) <=> (Len(QCompress(arg)) < Len(arg))
           /\ HasFlag(ret[2], CryptoFlagCompression) <=> (CarriedPayload = QCompress(arg))
           /\ ~HasFlag(ret[2], CryptoFlagCompression) <=> (CarriedPayload = arg)

\* C8: every successful encrypt returns [3][flags][ciphertext], the
\* ciphertext being 1 + trailer + payload bytes long with a trailer of 0, 2
\* or 20 bytes by protection mode (and deciphering to the padding byte, the
\* checksum of the payload in Checksum mode, and the payload); the flags
\* have the checksum bit exactly in Checksum mode, the hash bit exactly in
\* Hash mode, and no bit outside 0x01|0x02|0x04.
C8_WireFormat ==
    (op = "encrypt" /\ KeySet)
        => LET plain == DecryptLoop(key_parts, Mid(ret, 2), 0, 0)
               payload == IF compression_mode = CompressionNever THEN arg
                          ELSE IF compression_mode = CompressionAlways THEN QCompress(arg)
                          ELSE IF Len(QCompress(arg)) < Len(arg) THEN QCompress(arg)
                          ELSE arg
           IN  /\ raised = NoException
               /\ ret[1] = Version
               /\ Len(ret) = 2 + 1 + TrailerLen(protection_mode) + Len(payload)
               /\ plain[1] = origin.rnd
               /\ CarriedPayload = payload
               /\ protection_mode = ProtectionChecksum
                     => ReadUInt16(Mid(plain, 1)) = QChecksum(payload)
               /\ HasFlag(ret[2], CryptoFlagChecksum) <=> (protection_mode = ProtectionChecksum)
               /\ HasFlag(ret[2], CryptoFlagHash) <=> (protection_mode = ProtectionHash)
               /\ ret[2] \in 0..7

C8_Witness ==
    /\ op = "encrypt" /\ KeySet /\ protection_mode = ProtectionHash
    /\ compression_mode = CompressionAlways
    /\ Len(arg) = 2 /\ Len(ret) = 3 + HashLen + 4 + 2 /\ ret[2] = 5

\* the 8 bytes of a 64-bit value, most significant first
BigEndianBytes(p) == [i \in 1..8 |-> IF i % 2 = 1 THEN p[(i + 1) \div 2] \div 256
                                     ELSE p[i \div 2] % 256]

KeyScheduleOk ==
    (KeySet \/ KeyIsNonZero(key))
        => /\ Len(key_parts) = 8
           /\ \A x \in 0..7 : /\ key_parts[x + 1] \in 0..255
                              /\ key_parts[x + 1] = BigEndianBytes(Mask64(key))[8 - x]

\* C10: once the instance was constructed with a nonzero key or re-keyed,
\* the schedule has 8 entries in 0..255, entry x being byte x (counted from
\* the least significant) of the current key modulo 2^64; and encrypt and
\* decrypt calls change neither the key nor the schedule.
C10_KeyScheduleFollowsKey ==
    /\ []KeyScheduleOk
    /\ [][op' \in {"encrypt", "decrypt"} => UNCHANGED <<key, key_parts>>]_vars

C10_Witness ==
    /\ op = "set_key" /\ last_error = ErrorNoKeySet
    /\ Len(key) = 5 /\ key_parts = <<16, 50, 84, 118, 152, 186, 220, 254>>

\* Checksum protection alone does detect every such flip: each one changes
\* two adjacent deciphered bytes at most, which the CRC-16 never misses.
ChecksumTamperDetected ==
    (op = "decrypt" /\ origin.kind = "flip" /\ KeyNonZero /\ origin.byte >= 3
        /\ protection_mode = ProtectionChecksum)
        => (raised = NoException /\ ret = <<>> /\ last_error = ErrorIntegrityFailed)

\* what caller c's call returns and leaves in last_error when it runs alone
Alone(c) ==
    IF calls[c].kind = "encrypt"
    THEN EncryptToBytes(key_parts, compression_mode, protection_mode, calls[c].data, calls[c].rnd)
    ELSE DecryptToBytes(key_parts, NoWrite, calls[c].data)

=============================================================================
